---- MODULE Spec2Model ----
(***************************************************************************)
(* Model of the policy metrics exporter                                    *)
(* (src/observability/policy-metrics-exporter.py) and of the interactive   *)
(* demonstration script (src/scripts/demo.py).  They are two programs with *)
(* disjoint state; each specification below runs one of them.              *)
(*                                                                         *)
(* Exporter.                                                               *)
(* The state is the Prometheus registry (counter and gauge series), the    *)
(* module-level flag metrics_initialized, the log, the position of every   *)
(* thread that runs collect_gatekeeper_violations(), and the last response *)
(* of the HTTP metrics endpoint.  One step is one statement of the source. *)
(*                                                                         *)
(* Gauge values of policy_validation_duration_seconds are kept in          *)
(* milliseconds (0.045 s is 45) so that every series value is an integer.  *)
(*                                                                         *)
(* Demonstration script.                                                   *)
(* The state is the position in run_full_demo() and in the demo method it  *)
(* dispatched to, the locals the methods branch on, what the last          *)
(* statement printed and the requests it sent.  External commands and HTTP *)
(* servers are the environment: each call draws its outcome from a small   *)
(* set.  Messages are named by the source line that prints them.           *)
(***************************************************************************)
EXTENDS Integers, Sequences, FiniteSets, TLC

VARIABLES metrics_initialized, counter, gauge, log, server, pc, ix, scrape,
          is_windows, dpc, choice, plan, dix, output, item_id, printed, sent, rc,
          response, answer

\* The state of the exporter.
evars == <<metrics_initialized, counter, gauge, log, server, pc, ix, scrape>>

\* The state of the demonstration script.
dvars ==
    <<is_windows, dpc, choice, plan, dix, output, item_id, printed, sent, rc,
      response, answer>>

vars == <<evars, dvars>>

(* ---------------------------------------------------------------- bounds *)

\* Update failures (exceptions raised by an inc or a set) injected per run.
MaxFailures == 1

\* Calls of collect_gatekeeper_violations() that the log tells apart; the
\* "Refreshing metrics..." count saturates so that the loop runs on forever.
MaxCalls == 2

(* --------------------------------------------------------------- threads *)

\* main() and, in SpecConc only, a second trigger of the update routine.
Threads == {"main", "trigger"}

(* ------------------------------------------------- the statements (data) *)

Inc(metric, labels, delta) ==
    [kind |-> "inc", series |-> <<metric, labels>>, val |-> delta, msg |-> ""]

LogInfo(m) ==
    [kind |-> "log", series |-> <<"", <<>>>>, val |-> 0, msg |-> m]

Set(metric, labels, value) ==
    [kind |-> "set", series |-> <<metric, labels>>, val |-> value, msg |-> ""]

\* The (policy, severity, delta) increments of POLICY_VIOLATIONS, by
\* experiment group.
PolicySeedsShort ==
    << << <<"require-non-root", "high", 5>>,
          <<"no-privileged-containers", "critical", 2>>,
          <<"read-only-filesystem", "medium", 3>> >>,
       << <<"require-resource-limits", "medium", 4>>,
          <<"require-health-checks", "medium", 3>>,
          <<"require-readiness-probe", "low", 2>> >>,
       << <<"no-critical-vulnerabilities", "critical", 15>> >>,
       << <<"require-encryption", "high", 2>>,
          <<"no-public-access", "high", 3>>,
          <<"require-backup-retention", "medium", 1>> >> >>

PolicySeeds ==
    << << <<"require-non-root", "high", 5>>,
          <<"no-privileged-containers", "critical", 2>>,
          <<"read-only-filesystem", "medium", 3>> >>,
       << <<"require-resource-limits", "medium", 4>>,
          <<"require-health-checks", "medium", 3>>,
          <<"require-readiness-probe", "low", 2>> >>,
       << <<"no-critical-vulnerabilities", "critical", 15>> >>,
       << <<"require-encryption", "high", 2>>,
          <<"no-public-access", "high", 3>>,
          <<"require-backup-retention", "medium", 1>>,
          <<"require-security-groups", "high", 1>> >> >>

\* The (reason, delta) increments of DEPLOYMENT_BLOCKED.
BlockedSeeds ==
    << <<"security-violation", 2>>,
       <<"critical-vulnerabilities", 1>>,
       <<"terraform-violation", 1>>,
       <<"missing-encryption", 1>> >>

\* The "Generated Experiment k violations" line that closes group k.
ExperimentLog(k) ==
    CASE k = 1 -> "exp1" [] k = 2 -> "exp2" [] k = 3 -> "exp3" [] OTHER -> "exp4"

PolicyInc(p) == Inc("policy_violations_total", <<p[1], p[2]>>, p[3])

BlockedInc(b) == Inc("deployment_blocked_total", <<b[1]>>, b[2])

\* The statements of one experiment group: its increments, then its log line.
GroupBlock(k) ==
    [i \in 1..Len(PolicySeeds[k]) |-> PolicyInc(PolicySeeds[k][i])]
        \o << LogInfo(ExperimentLog(k)) >>

RECURSIVE GroupsFrom(_)
GroupsFrom(k) ==
    IF k > Len(PolicySeeds) THEN << >> ELSE GroupBlock(k) \o GroupsFrom(k + 1)

\* The body of "if not metrics_initialized:" up to, not including, the
\* assignment of the flag.
SeedBlock ==
    GroupsFrom(1) \o [i \in 1..Len(BlockedSeeds) |-> BlockedInc(BlockedSeeds[i])]

\* The gauge updates made on every call.
GaugeBlock ==
    << Set("vulnerability_count", <<"critical">>, 3),
       Set("vulnerability_count", <<"high">>, 12),
       Set("vulnerability_count", <<"medium">>, 8),
       Set("vulnerability_count", <<"low">>, 15),
       Set("policy_validation_duration_seconds", <<"kubernetes-security">>, 45),
       Set("policy_validation_duration_seconds", <<"terraform-security">>, 23),
       Set("policy_validation_duration_seconds", <<"vulnerability-scan">>, 120500),
       Set("policy_validation_duration_seconds", <<"bestpractices">>, 35),
       Set("vulnerability_scan_status", <<"api-service-vulnerable">>, 0),
       Set("vulnerability_scan_status", <<"api-service-secure">>, 1),
       Set("vulnerability_scan_status", <<"worker-service">>, 1) >>

(* ------------------------------------------------------ registry and log *)

\* The lines the logger can emit.
LogLines ==
    {"starting", "initial", "refreshing", "exp1", "exp2", "exp3", "exp4",
     "success", "error"}

CounterIncSubtracts(c, s, delta) ==
    IF s \in DOMAIN c
    THEN [c EXCEPT ![s] = @ - delta]
    ELSE [x \in DOMAIN c \cup {s} |-> IF x = s THEN 0 - delta ELSE c[x]]

\* Counter.labels(...).inc(delta): the child is created at 0 on first use.
CounterInc(c, s, delta) ==
    IF s \in DOMAIN c
    THEN [c EXCEPT ![s] = @ + delta]
    ELSE [x \in DOMAIN c \cup {s} |-> IF x = s THEN delta ELSE c[x]]

GaugeSetAdds(g, s, value) ==
    [x \in DOMAIN g \cup {s} |->
        IF x = s THEN (IF s \in DOMAIN g THEN g[s] + value ELSE value) ELSE g[x]]

\* Gauge.labels(...).set(value): overwrite.
GaugeSet(g, s, value) ==
    [x \in DOMAIN g \cup {s} |-> IF x = s THEN value ELSE g[x]]

\* logger.info / logger.error: one more line of that kind.
Logged(l, m) == [l EXCEPT ![m] = @ + 1]

\* The refresh line is counted up to MaxCalls - 1 and then no further.
LoggedRefresh(l) ==
    IF l["refreshing"] < MaxCalls - 1 THEN Logged(l, "refreshing") ELSE l

\* The number of calls of the update routine that main() has announced.
Calls == log["initial"] + log["refreshing"]

\* "if not metrics_initialized" (the guard of the seeding block).
NeedsSeedingAlways(flag) == TRUE

NeedsSeeding(flag) == ~flag

ReturnToNoSleep(t) == IF t = "main" THEN "logrefresh" ELSE "idle"

\* Where a finished call continues: main() goes on to time.sleep(60), the
\* second trigger becomes idle again.
ReturnTo(t) == IF t = "main" THEN "sleep" ELSE "idle"

(* ------------------------------------------------------------------ Init *)

NoScrape == [served |-> FALSE, counter |-> << >>, gauge |-> << >>]

\* Python's None, a value different from every text.
None == "None"

\* No call of run_command has been made yet.
NoCall == [called |-> FALSE]

\* No HTTP request has been answered yet.
NoResponse == [exc |-> "none", status |-> 0, body |-> ""]

\* The demonstration script before run_full_demo() shows its first menu.
\* platform.system() decides is_windows.
InitDemo ==
    /\ is_windows \in BOOLEAN
    /\ dpc = "menu"
    /\ choice = ""
    /\ plan = << >>
    /\ dix = 0
    /\ output = None
    /\ item_id = None
    /\ printed = {}
    /\ sent = << >>
    /\ rc = NoCall
    /\ response = NoResponse
    /\ answer = None

\* The exporter at the start of main().
InitExporter ==
    /\ metrics_initialized = FALSE
    /\ counter = << >>
    /\ gauge = << >>
    /\ log = [m \in LogLines |-> 0]
    /\ server = FALSE
    /\ pc = [t \in Threads |-> IF t = "main" THEN "start" ELSE "idle"]
    /\ ix = [t \in Threads |-> 0]
    /\ scrape = NoScrape

\* The exporter's process; the demonstration script is not running.
Init ==
    /\ InitExporter
    /\ InitDemo
    /\ is_windows = FALSE

(* --------------------------------- main(): lines 85-96 of the exporter *)

Goto(t, label, i) ==
    /\ pc' = [pc EXCEPT ![t] = label]
    /\ ix' = [ix EXCEPT ![t] = i]
    /\ UNCHANGED dvars

\* logger.info("Starting Policy Metrics Exporter on port 9091")
Start(t) ==
    /\ t = "main"
    /\ pc[t] = "start"
    /\ log' = Logged(log, "starting")
    /\ Goto(t, "serve", 0)
    /\ UNCHANGED <<metrics_initialized, counter, gauge, server, scrape>>

ServeNotListening(t) ==
    /\ t = "main"
    /\ pc[t] = "serve"
    /\ server' = FALSE
    /\ Goto(t, "loginit", 0)
    /\ UNCHANGED <<metrics_initialized, counter, gauge, log, scrape>>

\* start_http_server(9091): from here on the endpoint answers scrapes.
Serve(t) ==
    /\ t = "main"
    /\ pc[t] = "serve"
    /\ server' = TRUE
    /\ Goto(t, "loginit", 0)
    /\ UNCHANGED <<metrics_initialized, counter, gauge, log, scrape>>

\* logger.info("Generating initial metrics...")
LogInitial(t) ==
    /\ t = "main"
    /\ pc[t] = "loginit"
    /\ log' = Logged(log, "initial")
    /\ Goto(t, "call", 0)
    /\ UNCHANGED <<metrics_initialized, counter, gauge, server, scrape>>

\* collect_gatekeeper_violations() is entered (from line 91 or line 96).
Call(t) ==
    /\ t = "main"
    /\ pc[t] = "call"
    /\ Goto(t, "check", 0)
    /\ UNCHANGED <<metrics_initialized, counter, gauge, log, server, scrape>>

\* time.sleep(60)
Sleep(t) ==
    /\ t = "main"
    /\ pc[t] = "sleep"
    /\ Goto(t, "logrefresh", 0)
    /\ UNCHANGED <<metrics_initialized, counter, gauge, log, server, scrape>>

\* logger.info("Refreshing metrics...")
LogRefresh(t) ==
    /\ t = "main"
    /\ pc[t] = "logrefresh"
    /\ log' = LoggedRefresh(log)
    /\ Goto(t, "call", 0)
    /\ UNCHANGED <<metrics_initialized, counter, gauge, server, scrape>>

(* ------------- collect_gatekeeper_violations(): lines 24-83 of the exporter *)

CheckFlagSetsFirst(t) ==
    /\ pc[t] = "check"
    /\ metrics_initialized' = TRUE
    /\ IF NeedsSeeding(metrics_initialized)
       THEN Goto(t, "seed", 1)
       ELSE Goto(t, "gauge", 1)
    /\ UNCHANGED <<counter, gauge, log, server, scrape>>

\* "if not metrics_initialized:" at the top of the try block.
CheckFlag(t) ==
    /\ pc[t] = "check"
    /\ IF NeedsSeeding(metrics_initialized)
       THEN Goto(t, "seed", 1)
       ELSE Goto(t, "gauge", 1)
    /\ UNCHANGED <<metrics_initialized, counter, gauge, log, server, scrape>>

\* One statement of the seeding block: an increment or an info line.
SeedStep(t) ==
    /\ pc[t] = "seed"
    /\ LET st == SeedBlock[ix[t]] IN
       /\ IF st.kind = "inc"
          THEN /\ counter' = CounterInc(counter, st.series, st.val)
               /\ log' = log
          ELSE /\ log' = Logged(log, st.msg)
               /\ counter' = counter
       /\ IF ix[t] = Len(SeedBlock)
          THEN Goto(t, "setflag", 0)
          ELSE Goto(t, "seed", ix[t] + 1)
    /\ UNCHANGED <<metrics_initialized, gauge, server, scrape>>

SetFlagSkipped(t) ==
    /\ pc[t] = "setflag"
    /\ metrics_initialized' = metrics_initialized
    /\ Goto(t, "gauge", 1)
    /\ UNCHANGED <<counter, gauge, log, server, scrape>>

\* metrics_initialized = True
SetFlag(t) ==
    /\ pc[t] = "setflag"
    /\ metrics_initialized' = TRUE
    /\ Goto(t, "gauge", 1)
    /\ UNCHANGED <<counter, gauge, log, server, scrape>>

\* One gauge update.
GaugeStep(t) ==
    /\ pc[t] = "gauge"
    /\ LET st == GaugeBlock[ix[t]] IN
       /\ gauge' = GaugeSet(gauge, st.series, st.val)
       /\ IF ix[t] = Len(GaugeBlock)
          THEN Goto(t, "check2", 0)
          ELSE Goto(t, "gauge", ix[t] + 1)
    /\ UNCHANGED <<metrics_initialized, counter, log, server, scrape>>

\* "if not metrics_initialized: logger.info("Successfully generated ...")",
\* after which the function returns.
CheckSuccess(t) ==
    /\ pc[t] = "check2"
    /\ log' = IF ~metrics_initialized THEN Logged(log, "success") ELSE log
    /\ Goto(t, ReturnTo(t), 0)
    /\ UNCHANGED <<metrics_initialized, counter, gauge, server, scrape>>

\* The update failures still to be injected in this run.
FailuresLeft ==
    log["error"] + Cardinality({t \in Threads : pc[t] = "except"}) < MaxFailures

\* An inc or a set raises: the update is not applied and control passes to
\* the except clause, leaving the rest of the try block.
Raise(t) ==
    /\ \/ pc[t] = "seed" /\ SeedBlock[ix[t]].kind = "inc"
       \/ pc[t] = "gauge"
    /\ FailuresLeft
    /\ Goto(t, "except", 0)
    /\ UNCHANGED <<metrics_initialized, counter, gauge, log, server, scrape>>

ExceptResetsFlag(t) ==
    /\ pc[t] = "except"
    /\ log' = Logged(log, "error")
    /\ metrics_initialized' = FALSE
    /\ Goto(t, ReturnTo(t), 0)
    /\ UNCHANGED <<counter, gauge, server, scrape>>

ExceptPropagates(t) ==
    /\ pc[t] = "except"
    /\ log' = Logged(log, "error")
    /\ Goto(t, "dead", 0)
    /\ UNCHANGED <<metrics_initialized, counter, gauge, server, scrape>>

\* "except Exception as e: logger.error(...)", after which the function
\* returns normally.
Except(t) ==
    /\ pc[t] = "except"
    /\ log' = Logged(log, "error")
    /\ Goto(t, ReturnTo(t), 0)
    /\ UNCHANGED <<metrics_initialized, counter, gauge, server, scrape>>

(* ------------------------------------------------ the metrics endpoint *)

ScrapeClearsGauges ==
    /\ server
    /\ scrape' = [served |-> TRUE, counter |-> counter, gauge |-> gauge]
    /\ gauge' = << >>
    /\ UNCHANGED <<metrics_initialized, counter, log, server, pc, ix>>
    /\ UNCHANGED dvars

\* A scrape of the endpoint started by start_http_server: the response is
\* the registry as it is at that moment.  The server thread runs beside
\* main(), so a scrape can fall between any two statements of the update;
\* reading the whole registry in one step is the reading most favourable to
\* the consistency of a response.
Scrape ==
    /\ server
    /\ scrape' = [served |-> TRUE, counter |-> counter, gauge |-> gauge]
    /\ UNCHANGED <<metrics_initialized, counter, gauge, log, server, pc, ix>>
    /\ UNCHANGED dvars

(* ------------------------------------------ a second, concurrent trigger *)

\* Another caller of collect_gatekeeper_violations() (SpecConc only).
Trigger(t) ==
    /\ t = "trigger"
    /\ pc[t] = "idle"
    /\ Goto(t, "check", 0)
    /\ UNCHANGED <<metrics_initialized, counter, gauge, log, server, scrape>>

(* -------------------------------------------------------- specifications *)

MainStep(t) ==
    \/ Start(t) \/ Serve(t) \/ LogInitial(t) \/ Call(t)
    \/ Sleep(t) \/ LogRefresh(t)

CollectStep(t) ==
    \/ CheckFlag(t) \/ SeedStep(t) \/ SetFlag(t) \/ GaugeStep(t)
    \/ CheckSuccess(t) \/ Except(t)

\* The exporter as written: main() and the scraped endpoint.
Next ==
    \/ MainStep("main")
    \/ CollectStep("main")
    \/ Raise("main")
    \/ Scrape

Spec == Init /\ [][Next]_vars

\* main()'s loop under the scheduler: a thread that can take a step
\* eventually takes it.  Failures and scrapes are never forced.
FairSpec == Spec /\ WF_vars(MainStep("main") \/ CollectStep("main"))

\* Two triggers of collect_gatekeeper_violations() running concurrently,
\* with no update failure.
NextConc ==
    \E t \in Threads :
        \/ MainStep(t)
        \/ Trigger(t)
        \/ CheckFlag(t) \/ SeedStep(t) \/ SetFlag(t) \/ GaugeStep(t)
        \/ CheckSuccess(t)

SpecConc == Init /\ [][NextConc]_vars

(* ------------------------------------------------------------ properties *)

\* The increments of the seeding block, as positions of SeedBlock.
IncStmts == {i \in 1..Len(SeedBlock) : SeedBlock[i].kind = "inc"}

SeedSeries == {SeedBlock[i].series : i \in IncStmts}

GaugeSeries == {GaugeBlock[i].series : i \in 1..Len(GaugeBlock)}

RECURSIVE SumDeltas(_, _)
SumDeltas(s, i) ==
    IF i = 0 THEN 0
    ELSE SumDeltas(s, i - 1)
         + (IF SeedBlock[i].kind = "inc" /\ SeedBlock[i].series = s
            THEN SeedBlock[i].val ELSE 0)

\* Every counter series with the sum of its seed deltas applied once.
SeedTotal == [s \in SeedSeries |-> SumDeltas(s, Len(SeedBlock))]

\* Every gauge series with the last value the gauge block gives it.
GaugeSeed ==
    [s \in GaugeSeries |->
        LET last == CHOOSE i \in 1..Len(GaugeBlock) :
                        /\ GaugeBlock[i].series = s
                        /\ \A j \in (i + 1)..Len(GaugeBlock) : GaugeBlock[j].series # s
        IN GaugeBlock[last].val]

SeriesOf(metric, reg) == {s \in DOMAIN reg : s[1] = metric}

\* main() is between two calls: the call announced last has returned.
Returned == pc["main"] = "sleep"

\* C1: after N >= 1 sequential calls none of which failed, every counter
\* series holds the sum of its seed deltas applied once, and no step of a
\* refresh call (call 2 onwards) changes a counter.
C1_IdempotentInit ==
    [][ /\ (Returned' /\ log'["error"] = 0 /\ Calls' >= 1) => counter' = SeedTotal
        /\ (Calls >= 2 /\ log["error"] = 0) => counter' = counter ]_vars

C1_Witness ==
    /\ Returned /\ Calls >= 2 /\ log["error"] = 0
    /\ counter = SeedTotal

\* C2: with two concurrent triggers of the update routine no counter ever
\* exceeds the sum of its seed deltas applied once.
C2_SingleFire ==
    \A s \in DOMAIN counter : counter[s] <= SeedTotal[s]

\* C3: when the first call returns, the only updates of its batch that are
\* missing from the registry are the ones that failed (one per error line).
C3_BestEffort ==
    (Returned /\ Calls = 1) =>
        Cardinality((SeedSeries \ DOMAIN counter) \cup (GaugeSeries \ DOMAIN gauge))
            <= log["error"]

\* C4: every increment of the seed list is applied at most once, also when
\* a call fails inside the seeding block and the routine is called again:
\* a series that exists holds exactly the delta of its increment.
C4_ExactlyOnce ==
    \A i \in IncStmts :
        SeedBlock[i].series \in DOMAIN counter =>
            counter[SeedBlock[i].series] = SeedBlock[i].val

C6_GaugeStable ==
    (Returned /\ Calls >= 1) => gauge = GaugeSeed

\* C7: a failed update never ends the loop: the except clause returns to
\* main(), which sleeps and starts the next cycle, and every cycle is
\* followed by another one.
C7_LoopSurvivesFailure ==
    /\ (pc["main"] = "except") ~> (pc["main"] = "sleep")
    /\ (pc["main"] = "sleep") ~> (pc["main"] = "check")
    /\ (pc["main"] = "check") ~> (pc["main"] = "sleep")

C7_Witness ==
    /\ pc["main"] = "check" /\ log["error"] >= 1 /\ Calls >= 2

\* The statements of main() before its first call of the update routine.
Startup == {"start", "serve", "loginit"}

\* The positions inside collect_gatekeeper_violations().
InCall == {"check", "seed", "setflag", "gauge", "check2", "except"}

\* C8: main() calls the update routine at startup before any sleep, and from
\* then on a returned call is followed by the sleep, the sleep by the
\* refresh line and the next call, and nothing else.
C8_RunOrdering ==
    [][ LET p == pc["main"]
            q == pc'["main"]
        IN  p # q =>
              /\ p \in Startup => q \in Startup \cup {"call"}
              /\ q = "check" <=> p = "call"
              /\ q = "call" <=> p \in {"loginit", "logrefresh"}
              /\ q = "logrefresh" <=> p = "sleep"
              /\ q = "sleep" => p \in InCall
              /\ (p \in InCall /\ q \notin InCall) => q = "sleep" ]_vars

C8_Witness ==
    /\ pc["main"] = "check" /\ Calls >= 2

\* C9: a scrape never observes some but not all of the seed increments, nor
\* some but not all of the gauge sets.
C9_ConsistentScrape ==
    scrape.served =>
        /\ DOMAIN scrape.counter \in {{}, SeedSeries}
        /\ DOMAIN scrape.gauge \in {{}, GaugeSeries}

RECURSIVE CountPolicy(_)
CountPolicy(k) ==
    IF k = 0 THEN 0 ELSE CountPolicy(k - 1) + Len(PolicySeeds[k])

NonRoot == <<"policy_violations_total", <<"require-non-root", "high">>>>

VulnCount(sev) == <<"vulnerability_count", <<sev>>>>

C12_FlagAfterFirstCall ==
    (Returned /\ Calls = 1) => metrics_initialized

\* C13: each "Generated Experiment k violations" line is logged at most once
\* in the lifetime of the process.
C13_ExperimentLinesOnce ==
    \A m \in {"exp1", "exp2", "exp3", "exp4"} : log[m] <= 1

\* C16: whenever metrics_initialized is true every increment of the seed
\* list has been applied, and the flag rises only in the step that follows
\* the last statement of the seeding block.
C16_FlagImpliesSeeded ==
    [][ /\ metrics_initialized' =>
              \A s \in SeedSeries :
                  s \in DOMAIN counter' /\ counter'[s] >= SeedTotal[s]
        /\ (~metrics_initialized /\ metrics_initialized') =>
              \E t \in Threads : pc[t] = "setflag" /\ pc'[t] = "gauge" ]_vars

C16_Witness ==
    /\ metrics_initialized /\ log["error"] >= 1 /\ scrape.served
    /\ \A s \in SeedSeries : s \in DOMAIN counter

\* C17: no step makes a counter series disappear or lowers its value, and
\* every delta of the seed list is non-negative.
C17_CounterMonotone ==
    [][ /\ \A s \in DOMAIN counter :
              s \in DOMAIN counter' /\ counter'[s] >= counter[s]
        /\ \A s \in DOMAIN counter' : counter'[s] >= 0
        /\ \A i \in IncStmts : SeedBlock[i].val >= 0 ]_vars

C17_Witness ==
    /\ log["error"] >= 1
    /\ NonRoot \in DOMAIN counter /\ counter[NonRoot] > SeedTotal[NonRoot]

\* C18: when a call returns, all gauge series have been set, whatever
\* happened in the seeding block (stated for the first call, before which
\* no gauge series exists).
C18_GaugesEveryCall ==
    (Returned /\ Calls = 1) => Cardinality(DOMAIN gauge) = Len(GaugeBlock)

\* C19: a step that is not a step of the update routine (a scrape, or a
\* statement of main() outside the call) leaves every counter, every gauge
\* and metrics_initialized unchanged; a gauge series that exists holds its
\* seed value.
C19_OnlyUpdateWrites ==
    [][ /\ (pc["main"] \notin InCall \/ (pc' = pc /\ ix' = ix)) =>
              /\ counter' = counter
              /\ gauge' = gauge
              /\ metrics_initialized' = metrics_initialized
        /\ \A s \in DOMAIN gauge' : gauge'[s] = GaugeSeed[s] ]_vars

C19_Witness ==
    /\ scrape.served /\ scrape.gauge = GaugeSeed /\ gauge = GaugeSeed
    /\ pc["main"] = "sleep"

(***************************************************************************)
(* The demonstration script, src/scripts/demo.py                           *)
(***************************************************************************)

(* ------------------------------------------ run_command(): lines 57-103 *)

\* What a command can write to stdout: nothing, a blank, text that is not
\* JSON, a JSON object, JSON that is not an object, kubectl's "No resources
\* found" and kubectl's "created".
Texts == {"", " ", "text", "{}", "[]", "null", "No resources found", "pod created"}

\* Python truthiness of a str-or-None value: "if output:".
Truthy(x) == x # None /\ x # ""

\* The exceptions subprocess.run raises: subprocess.TimeoutExpired,
\* FileNotFoundError, and one that is neither (PermissionError).
Exceptions == {"TimeoutExpired", "FileNotFoundError", "PermissionError"}

\* What subprocess.run can do with a command: raise, or finish with a
\* return code and with what the process wrote.
Outcomes ==
    [exc : {"none"}, returncode : {0, 1}, stdout : Texts, stderr : {"", "err"}]
        \cup [exc : Exceptions, returncode : {0}, stdout : {""}, stderr : {""}]

\* Commands as the call sites pass them: the words of the string, and
\* whether it holds one of '|', '&&', ';'.
Commands ==
    { [words |-> <<"kubectl", "get", "pods">>, ops |-> FALSE],
      [words |-> <<"aws", "sts", "get-caller-identity">>, ops |-> FALSE],
      [words |-> <<"kubectl", "get", "clusterrolebindings", "|", "grep", "dev">>,
       ops |-> TRUE] }

\* Which of the three subprocess.run calls is made.
Invocation(command, shell, windows) ==
    IF ~windows /\ shell THEN "bash"
    ELSE IF windows /\ shell /\ command.ops THEN "powershell"
    ELSE "direct"

ExceptClauseNoCatchAll(exc) ==
    CASE exc = "TimeoutExpired" -> 95
      [] exc = "FileNotFoundError" -> 98
      [] OTHER -> 0

\* The except clause that handles an exception raised in the try block, by
\* its line; 0 when there is none.
ExceptClause(exc) ==
    CASE exc = "TimeoutExpired" -> 95
      [] exc = "FileNotFoundError" -> 98
      [] OTHER -> 101

\* run_command(command, capture_output, shell) when subprocess.run does o:
\* the value returned, the exception that leaves the function ("none" when
\* it returns), the messages printed and the invocation used.
RunCommand(command, capture_output, shell, windows, o) ==
    LET via == Invocation(command, shell, windows)
        stdout == IF capture_output THEN o.stdout ELSE None
        stderr == IF capture_output THEN o.stderr ELSE None
        clause == ExceptClause(o.exc)
    IN  IF o.exc = "none"
        THEN IF o.returncode # 0 /\ capture_output
             THEN [ret |-> IF Truthy(stdout) THEN stdout ELSE None,
                   raised |-> "none",
                   printed |-> IF Truthy(stderr) THEN {<<"error", 91>>} ELSE {},
                   via |-> via]
             ELSE [ret |-> IF capture_output THEN stdout ELSE None,
                   raised |-> "none", printed |-> {}, via |-> via]
        ELSE CASE clause = 95 ->
                    [ret |-> None, raised |-> "none",
                     printed |-> {<<"error", 96>>}, via |-> via]
               [] clause = 98 ->
                    \* command.split()[0] needs a first word
                    IF Len(command.words) = 0
                    THEN [ret |-> None, raised |-> "IndexError",
                          printed |-> {}, via |-> via]
                    ELSE [ret |-> None, raised |-> "none",
                          printed |-> {<<"error", 99>>}, via |-> via]
               [] clause = 101 ->
                    [ret |-> None, raised |-> "none",
                     printed |-> {<<"error", 102>>}, via |-> via]
               [] OTHER ->
                    [ret |-> None, raised |-> o.exc, printed |-> {}, via |-> via]

\* The record kept of a call: the line of the call, its arguments, what
\* subprocess.run did, and the result.
CallRecord(line, command, capture_output, shell, o, res) ==
    [called |-> TRUE, line |-> line, command |-> command, capture_output |-> capture_output,
     shell |-> shell, outcome |-> o, ret |-> res.ret, raised |-> res.raised,
     printed |-> res.printed, via |-> res.via]

\* run_command called on its own, with any arguments and any outcome.
RunAny ==
    /\ \E command \in Commands, capture_output \in BOOLEAN, shell \in BOOLEAN,
          o \in Outcomes :
          LET res == RunCommand(command, capture_output, shell, is_windows, o)
          IN  /\ rc' = CallRecord(57, command, capture_output, shell, o, res)
              /\ output' = res.ret
              /\ printed' = res.printed
    /\ UNCHANGED <<is_windows, dpc, choice, plan, dix, item_id, sent, response,
                   answer>>
    /\ UNCHANGED evars

InitRun == InitExporter /\ InitDemo

SpecRun == InitRun /\ [][RunAny]_vars

\* C20: run_command never lets an exception out and returns a text or
\* None: None after a timeout, a missing executable or any other exception;
\* after a non-zero exit the captured stdout if it is not empty, else None;
\* after a zero exit the captured stdout, or None when nothing is captured.
C20_RunCommandTotal ==
    rc.called =>
        LET o == rc.outcome
            stdout == IF rc.capture_output THEN o.stdout ELSE None
        IN  /\ rc.raised = "none"
            /\ rc.ret \in Texts \cup {None}
            /\ o.exc # "none" => rc.ret = None
            /\ (o.exc = "none" /\ o.returncode # 0) =>
                  rc.ret = (IF stdout # None /\ stdout # "" THEN stdout ELSE None)
            /\ (o.exc = "none" /\ o.returncode = 0) => rc.ret = stdout

C20_Witness ==
    /\ rc.called /\ rc.outcome.exc = "PermissionError"
    /\ rc.ret = None /\ rc.raised = "none"

(* ------------------------------------- the demo methods: lines 105-861 *)

\* str.strip() on a text of Texts.
Strip(x) == IF x = " " THEN "" ELSE x

\* str.lower() on the texts and answers used here.
Lower(x) ==
    CASE x = "YES" -> "yes"
      [] x = "Y" -> "y"
      [] x = "No resources found" -> "no resources found"
      [] OTHER -> x

\* "needle in x" for the needles the script looks for.
Mentions(x, needle) ==
    <<x, needle>> \in { <<"No resources found", "No resources found">>,
                        <<"pod created", "created">> }

\* json.loads(x): a dict, another JSON value, or json.JSONDecodeError.
JsonKind(x) ==
    CASE x \in {"{}", "{id}", "{result}"} -> "object"
      [] x \in {"[]", "null"} -> "other"
      [] OTHER -> "invalid"

\* The conditions the script puts on the output of a command.
Cond(c, x) ==
    CASE c = "truthy" -> Truthy(x)
      [] c = "found" -> Truthy(x) /\ ~Mentions(x, "No resources found")
      [] c = "nonblank" -> Truthy(x) /\ Strip(x) # ""
      [] c = "hpa" -> /\ Truthy(x) /\ Strip(x) # ""
                      /\ ~Mentions(Lower(x), "error")
                      /\ ~Mentions(Lower(x), "not found")
      [] OTHER -> Truthy(x) /\ Strip(x) # "" /\ Strip(x) # "null"

\* print_success / print_error / print_info at a line of the script.
Msg(kind, line) == {<<kind, line>>}

\* A statement that only prints a message.
Say(kind, line) == [op |-> "say", line |-> line, msgs |-> Msg(kind, line)]

\* output = self.run_command(<tool ...>) at a line, and what is done with
\* the output: use "print" is print(output), "slice" is print(output[:1000]),
\* "none" drops it.
Cmd(line, tool, use) ==
    [op |-> "cmd", line |-> line, command |-> [words |-> <<tool>>, ops |-> FALSE],
     use |-> use]

\* The same followed by "if <cond>: ... else: ...": the messages of the two
\* branches, and the number of following statements that belong to the
\* then-branch (skipped when the condition fails).
CmdIf(line, tool, cond, then, else, skip) ==
    [op |-> "cmd", line |-> line, command |-> [words |-> <<tool>>, ops |-> FALSE],
     use |-> "if", cond |-> cond, then |-> then, else |-> else, skip |-> skip]

\* The same followed by "if output: try: json.loads(output) ...": the
\* messages when the document is an object, when it is other JSON (the
\* .get raises), when it is not JSON, and when there is no output.
CmdJson(line, tool, ok, other, bad, else) ==
    [op |-> "cmd", line |-> line, command |-> [words |-> <<tool>>, ops |-> FALSE],
     use |-> "json", ok |-> ok, other |-> other, bad |-> bad, else |-> else]

\* input("Is port-forward running? (yes/no)") and the refusal message.
Ask(line, else) == [op |-> "ask", line |-> line, else |-> else]

\* requests.get(prometheus/api/v1/query) in a try block: the messages for
\* results, for no results, for a status other than 200 and for an
\* exception, and whether the except clause returns from the method.
Query(line, ok, empty, bad, exc, abort) ==
    [op |-> "query", line |-> line, ok |-> ok, empty |-> empty, bad |-> bad,
     exc |-> exc, abort |-> abort]

\* A request of test_api_endpoints: its role, method and path, the status
\* that counts as success, the messages for success, another status and an
\* exception, and whether the except clause returns from the method.
Api(line, role, method, path, status, ok, bad, exc, abort) ==
    [op |-> "api", line |-> line, role |-> role, method |-> method,
     path |-> path, status |-> status, ok |-> ok, bad |-> bad, exc |-> exc,
     abort |-> abort]

check_prerequisites ==
    << Say("info", 109),
       CmdIf(119, "kubectl", "truthy", Msg("success", 121), Msg("error", 123), 0),
       CmdIf(119, "docker", "truthy", Msg("success", 121), Msg("error", 123), 0),
       CmdIf(119, "aws", "truthy", Msg("success", 121), Msg("error", 123), 0),
       Say("success", 130),
       Say("success", 137),
       CmdIf(144, "kubectl", "truthy", Msg("success", 146), Msg("error", 148), 0),
       CmdJson(153, "aws", Msg("success", 157) \cup Msg("success", 158),
               Msg("success", 160), Msg("success", 160), Msg("error", 162)) >>

check_cluster_status ==
    << Cmd(173, "kubectl", "print"),
       Cmd(178, "kubectl", "print"),
       Cmd(183, "kubectl", "print"),
       Cmd(188, "kubectl", "print") >>

test_api_endpoints ==
    << Say("info", 195),
       Say("info", 199),
       Ask(201, Msg("error", 203)),
       Api(209, "health", "GET", "/health", 200,
           Msg("success", 211), Msg("error", 213), Msg("error", 215), TRUE),
       Api(221, "list", "GET", "/api/items", 200,
           Msg("success", 224), Msg("error", 227), Msg("error", 229), FALSE),
       Api(241, "create", "POST", "/api/items", 201,
           Msg("success", 249), Msg("error", 253), Msg("error", 256), FALSE),
       Api(262, "list", "GET", "/api/items", 200,
           Msg("success", 265), Msg("error", 268), Msg("error", 270), FALSE),
       Api(276, "delete", "DELETE", "/api/items/{id}", 200,
           Msg("success", 278), Msg("error", 280), Msg("error", 282), FALSE) >>

\* The body of "for metric, description in metrics_to_check".
CheckMetric ==
    Query(310, Msg("success", 319), Msg("info", 325), Msg("error", 327),
          Msg("error", 329), FALSE)

check_prometheus_metrics ==
    << Say("info", 288),
       Say("info", 292),
       Ask(294, Msg("error", 296)),
       CheckMetric, CheckMetric, CheckMetric, CheckMetric, CheckMetric >>

show_vulnerabilities ==
    << Say("info", 335),
       Say("info", 339),
       Ask(341, Msg("error", 343)),
       Query(349, Msg("success", 383), Msg("info", 385), Msg("error", 387),
             Msg("error", 389), TRUE),
       Query(395, Msg("success", 450), Msg("info", 452), Msg("error", 454),
             Msg("error", 456), FALSE),
       Query(461, Msg("success", 480), Msg("info", 482), Msg("error", 484),
             Msg("error", 486), FALSE),
       Query(491, Msg("success", 513), Msg("info", 515), Msg("error", 517),
             Msg("error", 519), FALSE) >>

demonstrate_policy_enforcement ==
    << Cmd(527, "kubectl", "print"),
       Cmd(532, "kubectl", "print"),
       Cmd(537, "kubectl", "slice"),
       CmdIf(542, "kubectl", "truthy", {}, {}, 0),
       Say("info", 548),
       Cmd(573, "kubectl", "apply"),
       Say("info", 588),
       CmdIf(615, "kubectl", "truthy", Msg("success", 617), {}, 0),
       Cmd(627, "kubectl", "none"),
       Cmd(628, "kubectl", "none"),
       Say("success", 629) >>

show_infrastructure ==
    << Say("info", 637),
       CmdJson(638, "aws", Msg("success", 650), Msg("error", 655),
               Msg("error", 652), Msg("error", 658)),
       Say("info", 662),
       CmdJson(663, "aws", Msg("success", 676), Msg("error", 680),
               Msg("error", 678), Msg("error", 682)),
       Say("info", 686),
       CmdJson(687, "aws", Msg("success", 698), Msg("error", 702),
               Msg("error", 700), Msg("error", 704)),
       Say("info", 708),
       CmdJson(709, "aws", Msg("info", 724), Msg("error", 728),
               Msg("error", 726), Msg("error", 730)) >>

show_scaling_demo ==
    << CmdIf(738, "kubectl", "found", {}, Msg("info", 742) \cup Msg("info", 743), 0),
       CmdIf(747, "kubectl", "truthy", {}, Msg("error", 751), 0),
       CmdIf(756, "kubectl", "hpa", {}, Msg("info", 762) \cup Msg("info", 763), 1),
       CmdIf(758, "kubectl", "truthy", {}, {}, 0),
       CmdIf(767, "kubectl", "truthy", {}, {}, 0),
       Say("info", 771),
       Say("info", 773) >>

\* "kubectl get clusterrolebindings", piped through grep except on Windows.
ClusterRoleBindings(windows) ==
    IF windows
    THEN CmdIf(821, "kubectl", "truthy", {}, {}, 0)
    ELSE [CmdIf(831, "kubectl", "truthy", {}, {}, 0)
            EXCEPT !.command = [words |-> <<"kubectl">>, ops |-> TRUE]]

show_security_features(windows) ==
    << CmdIf(782, "kubectl", "found", {}, Msg("info", 798) \cup Msg("info", 799), 2),
       CmdIf(789, "kubectl", "nonblank", {}, Msg("info", 796), 1),
       CmdIf(792, "kubectl", "truthy", {}, {}, 0),
       CmdIf(803, "kubectl", "truthy", {}, Msg("error", 807), 0),
       CmdIf(811, "kubectl", "found", {}, Msg("info", 815), 0),
       ClusterRoleBindings(windows),
       CmdIf(837, "kubectl", "truthy", {}, Msg("error", 841), 0),
       CmdIf(845, "kubectl", "notnull", {}, Msg("info", 849), 0) >>

open_dashboards == << Say("info", 855) >>

\* self.print_success("Full demonstration completed!") of choice 11.
completed == << Say("success", 919) >>

\* The statements of a demo method.
Body(method, windows) ==
    CASE method = "check_prerequisites" -> check_prerequisites
      [] method = "check_cluster_status" -> check_cluster_status
      [] method = "test_api_endpoints" -> test_api_endpoints
      [] method = "check_prometheus_metrics" -> check_prometheus_metrics
      [] method = "show_vulnerabilities" -> show_vulnerabilities
      [] method = "demonstrate_policy_enforcement" -> demonstrate_policy_enforcement
      [] method = "show_infrastructure" -> show_infrastructure
      [] method = "show_scaling_demo" -> show_scaling_demo
      [] method = "show_security_features" -> show_security_features(windows)
      [] method = "open_dashboards" -> open_dashboards
      [] OTHER -> completed

(* ------------------------------ HTTP: the requests library's outcomes *)

\* Response bodies: an object with a truthy "id", an object with query
\* results, an empty object, JSON that is not an object, and text that is
\* not JSON.
Bodies == {"{id}", "{result}", "{}", "[]", "null", "text"}

\* A request raises (connection refused, timeout) or is answered.
HttpOutcomes ==
    [exc : {"none"}, status : {200, 201, 500}, body : Bodies]
        \cup [exc : {"ConnectionError"}, status : {0}, body : {""}]

\* What the user may type at a yes/no question.
Answers == {"yes", "y", "YES", "no", ""}

\* What the user may type at the menu.
Choices ==
    {"0", "1", "2", "3", "4", "5", "6", "7", "8", "9", "10", "11", "12", ""}

\* The if/elif chain of run_full_demo: the demo methods a choice runs, in
\* order.
Dispatch(c) ==
    CASE c = "1" -> << "check_prerequisites" >>
      [] c = "2" -> << "check_cluster_status" >>
      [] c = "3" -> << "test_api_endpoints" >>
      [] c = "4" -> << "check_prometheus_metrics" >>
      [] c = "5" -> << "show_vulnerabilities" >>
      [] c = "6" -> << "demonstrate_policy_enforcement" >>
      [] c = "7" -> << "show_infrastructure" >>
      [] c = "8" -> << "show_scaling_demo" >>
      [] c = "9" -> << "show_security_features" >>
      [] c = "10" -> << "open_dashboards" >>
      [] c = "11" -> << "check_prerequisites", "check_cluster_status",
                        "show_infrastructure", "show_vulnerabilities",
                        "demonstrate_policy_enforcement",
                        "show_security_features", "show_scaling_demo",
                        "open_dashboards", "completed" >>
      [] OTHER -> << >>

(* ------------------------------------------------------- control flow *)

\* The statement about to be executed.
Stmt == Body(plan[1], is_windows)[dix]

\* The values of the locals of the running method after a statement.
Locals(out, id, snt, resp) ==
    /\ output' = out
    /\ item_id' = id
    /\ sent' = snt
    /\ response' = resp

\* The current method returns and its locals are gone: the next method of
\* the choice starts, or control is back in the menu loop at the
\* "Press Enter" prompt.  The requests sent so far for the choice stay on
\* record.
ReturnFromMethod(snt) ==
    /\ IF Len(plan) > 1
       THEN /\ plan' = Tail(plan) /\ dix' = 1 /\ dpc' = "run"
       ELSE /\ plan' = << >> /\ dix' = 0 /\ dpc' = "pause"
    /\ Locals(None, None, snt, NoResponse)

\* The answer to the method's yes/no question lasts as long as the method
\* runs.
KeepAnswer ==
    answer' = IF dpc' = "run" /\ plan' = plan THEN answer ELSE None

\* Control passes to the statement after the next skip statements.
Advance(skip, out, id, snt, resp) ==
    IF dix + 1 + skip <= Len(Body(plan[1], is_windows))
    THEN /\ plan' = plan /\ dix' = dix + 1 + skip /\ dpc' = "run"
         /\ Locals(out, id, snt, resp)
    ELSE ReturnFromMethod(snt)

\* An exception leaves the demo method and run_full_demo and reaches
\* "except Exception as e: print(Error ...)" at the end of the script, after
\* which the process ends.
Propagate(out) ==
    /\ plan' = << >> /\ dix' = 0 /\ dpc' = "crashed"
    /\ Locals(out, item_id, sent, response)

\* What is done with the output of a command: the messages printed, the
\* statements skipped, and whether an exception is raised.
UseOf(st, out) ==
    CASE st.use = "slice" ->
            [msgs |-> {}, skip |-> 0, raises |-> out = None]
      [] st.use = "if" ->
            IF Cond(st.cond, out)
            THEN [msgs |-> st.then, skip |-> 0, raises |-> FALSE]
            ELSE [msgs |-> st.else, skip |-> st.skip, raises |-> FALSE]
      [] st.use = "apply" ->
            [msgs |-> IF ~Truthy(out) THEN {}
                      ELSE IF Mentions(Lower(out), "created")
                              \/ Mentions(Lower(out), "unchanged")
                           THEN Msg("info", 576) ELSE Msg("error", 578),
             skip |-> 0, raises |-> FALSE]
      [] st.use = "json" ->
            [msgs |-> IF ~Truthy(out) THEN st.else
                      ELSE CASE JsonKind(out) = "object" -> st.ok
                             [] JsonKind(out) = "other" -> st.other
                             [] OTHER -> st.bad,
             skip |-> 0, raises |-> FALSE]
      [] OTHER ->
            [msgs |-> {}, skip |-> 0, raises |-> FALSE]

(* ------------------------------------- run_full_demo(): lines 863-926 *)

\* choice = input("Enter your choice: ") and the if/elif chain.  The records
\* of run_command calls and of requests start afresh with each choice.
Menu ==
    /\ dpc = "menu"
    /\ \E c \in Choices :
          /\ choice' = c
          /\ IF c = "0"
             THEN /\ dpc' = "exited" /\ plan' = << >> /\ dix' = 0
                  /\ printed' = {}
             ELSE IF Dispatch(c) # << >>
             THEN /\ dpc' = "run" /\ plan' = Dispatch(c) /\ dix' = 1
                  /\ printed' = {}
             ELSE /\ dpc' = "pause" /\ plan' = << >> /\ dix' = 0
                  /\ printed' = Msg("error", 924)
    /\ rc' = NoCall
    /\ sent' = << >>
    /\ UNCHANGED <<is_windows, output, item_id, response, answer>>
    /\ UNCHANGED evars

\* input("Press Enter to continue...")
Pause ==
    /\ dpc = "pause"
    /\ dpc' = "menu"
    /\ printed' = {}
    /\ UNCHANGED <<is_windows, choice, plan, dix, output, item_id, sent, rc,
                   response, answer>>
    /\ UNCHANGED evars

(* ----------------------------------------- one statement of a method *)

\* A print_* call that depends on nothing.
DoSay ==
    /\ dpc = "run"
    /\ Stmt.op = "say"
    /\ printed' = Stmt.msgs
    /\ Advance(0, output, item_id, sent, response)
    /\ KeepAnswer
    /\ UNCHANGED <<is_windows, choice, rc>>
    /\ UNCHANGED evars

\* A call of run_command and what the method does with its result.
DoCmd ==
    /\ dpc = "run"
    /\ Stmt.op = "cmd"
    /\ \E o \in Outcomes :
          LET res == RunCommand(Stmt.command, TRUE, TRUE, is_windows, o)
              use == UseOf(Stmt, res.ret)
              out == IF Stmt.use = "none" THEN output ELSE res.ret
          IN  /\ rc' = CallRecord(Stmt.line, Stmt.command, TRUE, TRUE, o, res)
              /\ IF res.raised # "none" \/ use.raises
                 THEN /\ printed' = res.printed \cup Msg("error", 936)
                      /\ Propagate(out)
                 ELSE /\ printed' = res.printed \cup use.msgs
                      /\ Advance(use.skip, out, item_id, sent, response)
    /\ KeepAnswer
    /\ UNCHANGED <<is_windows, choice>>
    /\ UNCHANGED evars

\* response = input("... (yes/no): ") and the return when the answer is
\* neither yes nor y.
DoAsk ==
    /\ dpc = "run"
    /\ Stmt.op = "ask"
    /\ \E ans \in Answers :
          IF Lower(ans) \in {"yes", "y"}
          THEN /\ printed' = {}
               /\ Advance(0, output, item_id, sent, response)
               /\ answer' = ans
          ELSE /\ printed' = Stmt.else
               /\ ReturnFromMethod(sent)
               /\ answer' = None
    /\ UNCHANGED <<is_windows, choice, rc>>
    /\ UNCHANGED evars

\* The outcome of the try block of a Prometheus query.
QueryResult(st, h) ==
    IF h.exc # "none" \/ (h.status = 200 /\ JsonKind(h.body) # "object")
    THEN [msgs |-> st.exc, abort |-> st.abort]
    ELSE IF h.status = 200
    THEN [msgs |-> IF h.body = "{result}" THEN st.ok ELSE st.empty,
          abort |-> FALSE]
    ELSE [msgs |-> st.bad, abort |-> FALSE]

\* requests.get(prometheus_url + "/api/v1/query", ...) in its try block.
DoQuery ==
    /\ dpc = "run"
    /\ Stmt.op = "query"
    /\ \E h \in HttpOutcomes :
          LET r == QueryResult(Stmt, h)
              snt == Append(sent, <<"GET", "/api/v1/query">>)
          IN  /\ printed' = r.msgs
              /\ IF r.abort THEN ReturnFromMethod(snt)
                 ELSE Advance(0, output, item_id, snt, h)
    /\ KeepAnswer
    /\ UNCHANGED <<is_windows, choice, rc>>
    /\ UNCHANGED evars

\* Whether the try block of a request of test_api_endpoints raises: the
\* request itself, response.json() on a body that is not JSON, len() of
\* null, or .get on a document that is not an object.
ApiRaises(st, h) ==
    \/ h.exc # "none"
    \/ /\ h.status = st.status
       /\ \/ /\ st.role \in {"health", "list", "create"}
             /\ JsonKind(h.body) = "invalid"
          \/ st.role = "list" /\ h.body = "null"
          \/ st.role = "create" /\ JsonKind(h.body) = "other"

\* created_item.get('id')
IdOf(body) == IF body = "{id}" THEN "id1" ELSE None

ApiResultKeepsId(st, h) ==
    IF ApiRaises(st, h)
    THEN [msgs |-> st.exc, abort |-> st.abort, id |-> None]
    ELSE IF h.status = st.status
    THEN [msgs |-> st.ok, abort |-> FALSE, id |-> IdOf(h.body)]
    ELSE [msgs |-> st.bad, abort |-> FALSE, id |-> "id1"]

ApiResultNoAbort(st, h) ==
    IF ApiRaises(st, h)
    THEN [msgs |-> st.exc, abort |-> FALSE, id |-> None]
    ELSE IF h.status = st.status
    THEN [msgs |-> st.ok, abort |-> FALSE, id |-> IdOf(h.body)]
    ELSE [msgs |-> st.bad, abort |-> FALSE, id |-> None]

\* The outcome of the try block of a request of test_api_endpoints.
ApiResult(st, h) ==
    IF ApiRaises(st, h)
    THEN [msgs |-> st.exc, abort |-> st.abort, id |-> None]
    ELSE IF h.status = st.status
    THEN [msgs |-> st.ok, abort |-> FALSE, id |-> IdOf(h.body)]
    ELSE [msgs |-> st.bad, abort |-> FALSE, id |-> None]

\* A request of test_api_endpoints in its try block; the DELETE is made
\* only "if item_id:".
DoApi ==
    /\ dpc = "run"
    /\ Stmt.op = "api"
    /\ IF Stmt.role = "delete" /\ ~Truthy(item_id)
       THEN /\ printed' = {}
            /\ Advance(0, output, item_id, sent, response)
       ELSE \E h \in HttpOutcomes :
               LET r == ApiResult(Stmt, h)
                   id == IF Stmt.role = "create" THEN r.id ELSE item_id
                   snt == Append(sent, <<Stmt.method, Stmt.path>>)
               IN  /\ printed' = r.msgs
                   /\ IF r.abort THEN ReturnFromMethod(snt)
                      ELSE Advance(0, output, id, snt, h)
    /\ KeepAnswer
    /\ UNCHANGED <<is_windows, choice, rc>>
    /\ UNCHANGED evars

NextDemo ==
    \/ Menu \/ Pause
    \/ DoSay \/ DoCmd \/ DoAsk \/ DoQuery \/ DoApi

InitScript == InitExporter /\ InitDemo

\* The demonstration script, from the first menu on.
SpecDemo == InitScript /\ [][NextDemo]_vars

(* ------------------------------------------- properties of the script *)

\* C14: a failure of an external command is never fatal to the demo:
\* whenever the last run_command call of a menu choice returned None, the
\* script is still running the choice or is back in the menu loop; it has
\* not left run_full_demo through an exception.
C14_FailureNotFatal ==
    (rc.called /\ rc.ret = None) => dpc \in {"run", "pause", "menu"}

\* C15: malformed external data is reported and is not fatal: every step
\* that hands json.loads or response.json() a text that is not JSON (the
\* output of a command at a statement that parses it, or the body of a 200
\* answer to a Prometheus query) prints an error message and no success
\* message, and the script goes on.
C15_MalformedReported ==
    [][ LET cmdBad == /\ dpc = "run" /\ Stmt.op = "cmd" /\ Stmt.use = "json"
                      /\ Truthy(rc'.ret) /\ JsonKind(rc'.ret) = "invalid"
            httpBad == /\ dpc = "run" /\ Stmt.op = "query"
                       /\ sent' # sent
                       /\ response'.exc = "none" /\ response'.status = 200
                       /\ JsonKind(response'.body) = "invalid"
        IN  (cmdBad \/ httpBad) =>
               /\ \E m \in printed' : m[1] = "error"
               /\ \A m \in printed' : m[1] # "success"
               /\ dpc' # "crashed" ]_vars

\* C21: run_full_demo leaves its loop only when the choice is exactly "0";
\* a choice 1..10 runs exactly the one method it names; and an invalid
\* choice is answered with "Invalid choice" before the "Press Enter" prompt.
C21_MenuLoop ==
    /\ dpc \in {"exited", "crashed"} => choice = "0"
    /\ (dpc = "run" /\ choice # "11") =>
          plan = Dispatch(choice) /\ Len(plan) = 1
    /\ (dpc = "pause" /\ Dispatch(choice) = << >>) =>
          printed = Msg("error", 924)

\* A request step of test_api_endpoints.
ApiStep ==
    dpc = "run" /\ plan[1] = "test_api_endpoints" /\ Stmt.op = "api"

\* C22: in test_api_endpoints a request is sent only after the answer yes
\* or y; the DELETE is sent only with a truthy item_id; and item_id is
\* truthy after the POST exactly when the POST was answered 201 with a
\* truthy id (not when it raised or had another status), and is not touched
\* by the other requests.
C22_GatedRequests ==
    [][ ApiStep =>
          /\ sent' # sent => Lower(answer) \in {"yes", "y"}
          /\ (sent' # sent /\ Stmt.method = "DELETE") => Truthy(item_id)
          /\ (Stmt.role = "create" /\ dpc' = "run") =>
                (Truthy(item_id') <=>
                    /\ response'.exc = "none"
                    /\ response'.status = 201
                    /\ Truthy(IdOf(response'.body)))
          /\ (Stmt.role # "create" /\ dpc' = "run") => item_id' = item_id
      ]_vars

\* The DELETE has been sent, as the fifth request of the method.
C22_Witness ==
    /\ dpc = "pause" /\ choice = "3"
    /\ Len(sent) = 5
    /\ sent[5] = <<"DELETE", "/api/items/{id}">>

\* The requests of test_api_endpoints in the order of the code.
ApiSequence ==
    << <<"GET", "/health">>, <<"GET", "/api/items">>,
       <<"POST", "/api/items">>, <<"GET", "/api/items">>,
       <<"DELETE", "/api/items/{id}">> >>

\* The health check: when its except clause speaks (line 215) the method
\* has returned with only the health request sent; when a status other
\* than 200 is reported (line 213) the method goes on to the next request.
HealthCheck ==
    (ApiStep /\ Stmt.role = "health") =>
        /\ printed' = Msg("error", 215) =>
              dpc' = "pause" /\ sent' = SubSeq(ApiSequence, 1, 1)
        /\ printed' = Msg("error", 213) =>
              /\ dpc' = "run" /\ dix' = dix + 1
              /\ response'.exc = "none" /\ response'.status # 200

\* While the method runs, the requests sent are those of the statements
\* passed, in order.
InOrder ==
    (dpc = "run" /\ plan[1] = "test_api_endpoints") =>
        sent = SubSeq(ApiSequence, 1, IF dix > 4 THEN dix - 4 ELSE 0)

\* C23 as stated: a health check that raises ends the step with no further
\* request, and after a health check with a status other than 200 the
\* requests GET, POST, GET, DELETE are all sent, in that order.
C23_FullSequence ==
    [][ /\ HealthCheck
        /\ InOrder'
        /\ (dpc' = "pause" /\ choice' = "3") =>
              sent' \in {<< >>, SubSeq(ApiSequence, 1, 1), ApiSequence}
      ]_vars

\* C23 amended: a health check that raises ends the step with no further
\* request, and after a health check with a status other than 200 the
\* requests GET, POST, GET are sent in that order, followed by the DELETE
\* only when the POST produced an id.
C23_SequenceDeleteIfId ==
    [][ /\ HealthCheck
        /\ InOrder'
        /\ (dpc' = "pause" /\ choice' = "3") =>
              sent' \in {<< >>, SubSeq(ApiSequence, 1, 1),
                         SubSeq(ApiSequence, 1, 4), ApiSequence}
        /\ (ApiStep /\ Stmt.role = "delete") =>
              (sent' = ApiSequence <=> Truthy(item_id))
      ]_vars

\* The health check was answered 500, the failure was reported, and the
\* method is at the next request.
C23_Witness ==
    /\ dpc = "run" /\ plan[1] = "test_api_endpoints" /\ dix = 5
    /\ response.status = 500
    /\ printed = Msg("error", 213)
    /\ sent = SubSeq(ApiSequence, 1, 1)

(* ----------------------------------- further properties of the exporter *)

\* C24: the metrics endpoint is started before the first update is applied:
\* as long as start_http_server has not run, main() is still before it, no
\* call of collect_gatekeeper_violations() has been announced, the flag is
\* false and the registry holds no series.  (The state in which a scrape is
\* then served from the still empty registry is C24_Witness.)
C24_ServerBeforeUpdates ==
    ~server =>
        /\ pc["main"] \in {"start", "serve"}
        /\ Calls = 0
        /\ ~metrics_initialized
        /\ counter = << >> /\ gauge = << >>

\* A scrape has been served while the flag is false and nothing has been
\* seeded or set: the response is empty.
C24_Witness ==
    /\ scrape.served
    /\ scrape.counter = << >> /\ scrape.gauge = << >>
    /\ ~metrics_initialized
    /\ counter = << >> /\ gauge = << >>

\* C25: in a single-threaded run the check at the end of
\* collect_gatekeeper_violations() always finds metrics_initialized true,
\* and the "Successfully generated ..." line is logged in no execution.
C25_SuccessUnreachable ==
    /\ pc["main"] = "check2" => metrics_initialized
    /\ log["success"] = 0

\* Control is at the final check, in a call that has seeded the counters.
C25_Witness ==
    /\ pc["main"] = "check2"
    /\ Calls = 1
    /\ log["exp4"] = 1

====
